---- MODULE Spec2Model ----
(***************************************************************************)
(* Model of fetch_latest.py: the incremental manifest of the dataset       *)
(* fetcher.  A run of main() loads downloads/_manifest.json, routes every  *)
(* configured source to its handler, and writes the manifest back.  The    *)
(* download directory and the manifest file persist between runs.          *)
(***************************************************************************)
EXTENDS Integers, Sequences, FiniteSets, TLC

\* ------------------------------------------------------------------ bounds
MaxRuns == 2      \* runs of main() in one behaviour
MaxLinks == 2     \* links a listing page yields to a handler in one run
MaxParts == 3     \* parts (date substrings, filler characters) of a text
MaxRecent == 9    \* candidates of a page that has more of them than a handler takes
TicksPerDay == 2  \* instants of a day that are told apart (midnight, noon)

\* ------------------------------------------------------------- constants
DownloadLimit == 15    \* handle_scrape: "if downloaded >= 15: break"
AvailableLimit == 20   \* handle_scrape_if_available: links[:20]
RecentLimit == 8       \* handle_scrape_or_pattern: sorted(recent, ...)[:8]
WindowDays == 365      \* main: window_12m_start = run_date - 365 days
MAX_RETRIES == 3
RETRY_BACKOFF == 2           \* seconds
REQUEST_JITTER_MIN == 200    \* 0.2 s, in milliseconds
REQUEST_JITTER_MAX == 800    \* 0.8 s, in milliseconds

\* ------------------------------------------------------------------ values
None == "None"

\* A URL is modelled by the two parts the handlers use: the directory part and
\* the last path component, which becomes the local file name.
Url(d, n) == [dir |-> d, name |-> n]
NoUrl == Url(None, None)
FileUrls == {Url("a", "f1")}
PageUrl == Url("page", "")

\* Path(urlparse(url).path).name
Filename(u) == u.name

Methods == {"direct_file", "scrape_or_pattern", "scrape", "uscis_employment_data",
            "scrape_if_available", "manual_or_auth"}

\* A source of sources.yaml.  Every modelled source has its own group, so its
\* own group directory under downloads/.
Source(m) == [method |-> m, group |-> m, page_url |-> PageUrl, url |-> Url("a", "f1")]

\* The configurations main() is run with, the same one in every run: one
\* source of each method, and two sources that name the same file URL.
Configs == {<<Source(m)>> : m \in Methods}
           \cup {<<Source("direct_file"), Source("uscis_employment_data")>>}

\* dest_path = group_dir / filename
DestPath(source, u) == <<source.group, Filename(u)>>
Paths == {<<m, Filename(u)>> : m \in Methods, u \in FileUrls}
NoPath == <<None, None>>

\* The content of a local file: absent, or the bytes written by a download of
\* url, complete or broken off part-way.
NoFile == [url |-> NoUrl, complete |-> FALSE]
Content(u, c) == [url |-> u, complete |-> c]

\* hash_file: the SHA256 digest of the bytes of the file.
hash_file(c) == <<"sha256", c.url, c.complete>>
NoHash == <<None, NoUrl, FALSE>>

\* None in a date field.  A datetime is a number of ticks.
NoDate == -1

\* timedelta(days=n)
timedelta(days) == days * TicksPerDay

\* A link found on a listing page, as pick_recent_links returns it: (url, text,
\* detected_date), with a date inside the 12-month window of every run.
Links == {[url |-> u, detected_date |-> 900] : u \in FileUrls}

\* A link in whose text and URL no date is recognised.
UndatedLinks == {[url |-> u, detected_date |-> NoDate] : u \in FileUrls}

RECURSIVE SeqsUpTo(_, _)
SeqsUpTo(S, n) ==
    IF n = 0 THEN {<<>>}
    ELSE LET shorter == SeqsUpTo(S, n - 1)
         IN shorter \cup {Append(s, x) : s \in {t \in shorter : Len(t) = n - 1}, x \in S}

\* The listings a page can yield in one run.
Listings == SeqsUpTo(Links, MaxLinks)
UndatedListings == SeqsUpTo(UndatedLinks, MaxLinks)

VARIABLES
    pc,                \* where main() is
    runs,              \* runs started so far
    config,            \* sources of sources.yaml
    run_date,          \* datetime.now() of the current run, in ticks
    src,               \* index of the source being handled
    work,              \* links the current handler has still to process
    downloaded,        \* handle_scrape's counter
    manifest_entries,  \* the entry list of the run
    files_by_url,      \* manifest['files_by_url']
    disk,              \* downloads/: path -> content
    manifest_file,     \* downloads/_manifest.json
    hist,              \* history of the run, for stating properties
    text,              \* the argument of a call of extract_date_from_text
    detected,          \* what the call returned
    links,             \* the (url, text) pairs given to pick_recent_links
    within_months,     \* its within_months argument
    recent_links,      \* the list it returned
    http               \* a call of http_get

vars == <<pc, runs, config, run_date, src, work, downloaded, manifest_entries,
          files_by_url, disk, manifest_file, hist, text, detected, links, within_months,
          recent_links, http>>

\* ------------------------------------------------------- the manifest file
\* downloads/_manifest.json is absent ("missing"), is not parseable JSON
\* ("garbage": empty or cut off), is JSON whose top level is not an object
\* ("not_object"), is an object whose "entries" value cannot be iterated or
\* holds an element that is not an object ("entries_bad"), is an object with no
\* "entries" key ("no_entries"), or is an object with a list of entry objects
\* ("json").
NoDoc == [run_date |-> NoDate, window_12m_start |-> NoDate, window_12m_end |-> NoDate,
          total_files |-> 0, entries |-> <<>>]
File(k, d) == [kind |-> k, doc |-> d]
MissingFile == File("missing", NoDoc)
GarbageFile == File("garbage", NoDoc)

\* A key that an entry object of the file does not have.
Missing == "Missing"

Entry(u, p, d, m, st, h, at) ==
    [source_url |-> u, local_path |-> p, detected_date |-> d, method |-> m,
     status |-> st, hash |-> h, downloaded_at |-> at]

\* An object of the "entries" array that is no manifest entry: it has neither
\* "source_url" nor "status".
ForeignEntry == Entry(NoUrl, NoPath, NoDate, Missing, Missing, NoHash, NoDate)

EmptyIndex == [u \in {} |-> ForeignEntry]
EmptyManifest == [entries |-> <<>>, files_by_url |-> EmptyIndex]

\* files_by_url.setdefault(url, entry): an indexed URL keeps its old entry.
Put_keep_first(index, u, e) ==
    [x \in (DOMAIN index) \cup {u} |-> IF x \in DOMAIN index THEN index[x] ELSE e]

\* files_by_url[url] = entry
Put(index, u, e) == [x \in (DOMAIN index) \cup {u} |-> IF x = u THEN e ELSE index[x]]

\* An append that replaces the earlier entry of the same source_url in place.
RECURSIVE append_superseding(_, _)
append_superseding(entries, entry) ==
    IF entries = <<>> THEN <<entry>>
    ELSE IF Head(entries).source_url = entry.source_url
         THEN <<entry>> \o Tail(entries)
         ELSE <<Head(entries)>> \o append_superseding(Tail(entries), entry)

\* manifest_entries.append({...})
append(entries, entry) == Append(entries, entry)

\* The loop that builds files_by_url, an indexed URL keeping its first entry.
RECURSIVE BuildIndex_keep_first(_, _, _)
BuildIndex_keep_first(entries, k, index) ==
    IF k > Len(entries) THEN index
    ELSE LET entry == entries[k]
             url == entry.source_url
         IN BuildIndex_keep_first(entries, k + 1,
                IF url # NoUrl /\ entry.status = "success"
                THEN Put_keep_first(index, url, entry) ELSE index)

\* The loop that builds files_by_url, stopping one entry early.
RECURSIVE BuildIndex_short(_, _, _)
BuildIndex_short(entries, k, index) ==
    IF k >= Len(entries) THEN index
    ELSE LET entry == entries[k]
             url == entry.source_url
         IN BuildIndex_short(entries, k + 1,
                IF url # NoUrl /\ entry.status = "success"
                THEN Put(index, url, entry) ELSE index)

\* load_manifest, the loop that builds files_by_url.
RECURSIVE BuildIndex(_, _, _)
BuildIndex(entries, k, index) ==
    IF k > Len(entries) THEN index
    ELSE LET entry == entries[k]
             url == entry.source_url
         IN BuildIndex(entries, k + 1,
                IF url # NoUrl /\ entry.status = "success"
                THEN Put(index, url, entry) ELSE index)

\* load_manifest keeping the successful entries only.
IsSuccess(entry) == entry.status = "success"
load_manifest_success_only(file) ==
    IF file.kind # "json" THEN EmptyManifest
    ELSE [entries |-> SelectSeq(file.doc.entries, IsSuccess),
          files_by_url |-> BuildIndex(file.doc.entries, 1, EmptyIndex)]

\* load_manifest, with main's manifest.get('entries', []).
load_manifest(file) ==
    CASE file.kind = "missing" -> EmptyManifest
      [] file.kind \in {"garbage", "not_object", "entries_bad"} -> EmptyManifest
      [] file.kind = "no_entries" -> EmptyManifest
      [] OTHER -> [entries |-> file.doc.entries,
                   files_by_url |-> BuildIndex(file.doc.entries, 1, EmptyIndex)]

\* is_file_in_manifest without the check of the disk.
is_file_in_manifest_index_only(file_url, local_path, index, files) ==
    file_url \in DOMAIN index

is_file_in_manifest(file_url, local_path, index, files) ==
    IF file_url \notin DOMAIN index THEN FALSE
    ELSE IF files[local_path] = NoFile THEN FALSE
    ELSE TRUE

\* main: the final_manifest document.
RECURSIVE CountSuccess(_)
CountSuccess(entries) ==
    IF entries = <<>> THEN 0
    ELSE (IF Head(entries).status = "success" THEN 1 ELSE 0) + CountSuccess(Tail(entries))

final_manifest(date, entries) ==
    [run_date |-> date, window_12m_start |-> date - timedelta(WindowDays), window_12m_end |-> date,
     total_files |-> CountSuccess(entries), entries |-> entries]

\* ------------------------------------------------------------- download
\* download_file: "ok" writes the whole file and returns True; "http_error"
\* fails in http_get (or mkdir) and leaves the destination as it was; "broken"
\* fails while streaming, after open(dest_path, 'wb') truncated the file.
Outcomes == {"ok", "http_error", "broken"}
download_file(files, u, path, outcome) ==
    CASE outcome = "ok" -> [files EXCEPT ![path] = Content(u, TRUE)]
      [] outcome = "broken" -> [files EXCEPT ![path] = Content(u, FALSE)]
      [] OTHER -> files

\* ------------------------------------------------ extract_date_from_text
\* A text is a sequence of tokens: a month name, other letters ("x"), the
\* fiscal-year word ("fy", "fiscalyear" or "fiscal year"), the letter q, a run
\* of digits, or one separator character.  Adjacent tokens are adjacent
\* characters.  c is the case of the letters of a token.
Tok(k, s, d) == [k |-> k, s |-> s, d |-> d, c |-> "lower"]
Mon(name) == Tok("month", name, <<>>)
Word == Tok("word", "x", <<>>)
Fy(s) == Tok("fy", s, <<>>)
Qu == Tok("q", "q", <<>>)
Num(d) == Tok("num", "", d)
Sep(ch) == Tok("sep", ch, <<>>)
EndOfText == Tok("end", "", <<>>)
Letters == {"month", "word", "fy", "q"}

\* int(match.group(n))
RECURSIVE int(_)
int(d) == IF d = <<>> THEN 0 ELSE 10 * int(SubSeq(d, 1, Len(d) - 1)) + d[Len(d)]

\* What a call returns: a datetime, None, or the ValueError raised.
Date(y, m, d) == [kind |-> "date", year |-> y, month |-> m, day |-> d]
Absent == [kind |-> "None", year |-> 0, month |-> 0, day |-> 0]
ValueError == [kind |-> "ValueError", year |-> 0, month |-> 0, day |-> 0]
NotCalled == [kind |-> "not called", year |-> 0, month |-> 0, day |-> 0]
NoMatch == [kind |-> "no match", year |-> 0, month |-> 0, day |-> 0]

IsLeap(y) == (y % 4 = 0 /\ y % 100 # 0) \/ y % 400 = 0
DaysInMonth(y, m) ==
    IF m = 2 THEN (IF IsLeap(y) THEN 29 ELSE 28)
    ELSE IF m \in {4, 6, 9, 11} THEN 30 ELSE 31

\* datetime(year, month, day): ValueError outside year 1..9999, month 1..12
\* and the days of the month.
datetime(y, m, d) ==
    IF y \in 1..9999 /\ m \in 1..12 /\ d \in 1..DaysInMonth(y, m)
    THEN Date(y, m, d) ELSE ValueError

\* text = text.lower()
lower(t) == [i \in DOMAIN t |-> [t[i] EXCEPT !.c = "lower"]]

\* The month_names dict, in its order of insertion.
month_names ==
    << [name |-> "january", num |-> 1], [name |-> "jan", num |-> 1],
       [name |-> "february", num |-> 2], [name |-> "feb", num |-> 2],
       [name |-> "march", num |-> 3], [name |-> "mar", num |-> 3],
       [name |-> "april", num |-> 4], [name |-> "apr", num |-> 4],
       [name |-> "may", num |-> 5],
       [name |-> "june", num |-> 6], [name |-> "jun", num |-> 6],
       [name |-> "july", num |-> 7], [name |-> "jul", num |-> 7],
       [name |-> "august", num |-> 8], [name |-> "aug", num |-> 8],
       [name |-> "september", num |-> 9], [name |-> "sep", num |-> 9],
       [name |-> "october", num |-> 10], [name |-> "oct", num |-> 10],
       [name |-> "november", num |-> 11], [name |-> "nov", num |-> 11],
       [name |-> "december", num |-> 12], [name |-> "dec", num |-> 12] >>

\* The token at position p, and the regex classes \w and \b.
At(t, p) == IF p \in 1..Len(t) THEN t[p] ELSE EndOfText
IsWordChar(tok) == tok.k \in Letters \cup {"num"} \/ (tok.k = "sep" /\ tok.s = "_")
BoundaryBefore(t, p) == ~IsWordChar(At(t, p - 1))
BoundaryAfter(t, p) == ~IsWordChar(At(t, p + 1))
IsLetter(tok, k) == tok.k = k /\ tok.c = "lower"
IsDigits(tok, n) == tok.k = "num" /\ Len(tok.d) = n
IsSep(tok, chars) == tok.k = "sep" /\ tok.s \in chars
Min(S) == CHOOSE p \in S : \A q \in S : p <= q

\* rf'\b{month_name}[-\s]?(\d{4})\b': the position of the year of a match that
\* starts at p, 0 if there is none.
MonthYearAt(t, p, name) ==
    LET y == IF IsSep(At(t, p + 1), {"-", " "}) THEN p + 2 ELSE p + 1
    IN IF /\ IsLetter(At(t, p), "month") /\ At(t, p).s = name
          /\ BoundaryBefore(t, p)
          /\ IsDigits(At(t, y), 4) /\ BoundaryAfter(t, y)
       THEN y ELSE 0

\* The loop over month_names from entry i on: the first name of the dict that
\* matches decides, by its leftmost match.
RECURSIVE SearchMonthNames(_, _)
SearchMonthNames(t, i) ==
    IF i > Len(month_names) THEN NoMatch
    ELSE LET found == {p \in 1..Len(t) : MonthYearAt(t, p, month_names[i].name) # 0}
         IN IF found # {}
            THEN datetime(int(t[MonthYearAt(t, Min(found), month_names[i].name)].d),
                          month_names[i].num, 1)
            ELSE SearchMonthNames(t, i + 1)

\* r'\b(\d{4})[-_](\d{1,2})\b'
YearMonthAt(t, p) ==
    /\ IsDigits(At(t, p), 4) /\ BoundaryBefore(t, p)
    /\ IsSep(At(t, p + 1), {"-", "_"})
    /\ (IsDigits(At(t, p + 2), 1) \/ IsDigits(At(t, p + 2), 2))
    /\ BoundaryAfter(t, p + 2)

\* r'(?:fy|fiscal\s*year)\s*(\d{4})': the position of the digits after the
\* fiscal-year word at p, 0 if there is none.
RECURSIVE SkipSpaces(_, _)
SkipSpaces(t, p) == IF IsSep(At(t, p), {" "}) THEN SkipSpaces(t, p + 1) ELSE p
FiscalYearAt(t, p) ==
    LET y == SkipSpaces(t, p + 1)
    IN IF IsLetter(At(t, p), "fy") /\ At(t, y).k = "num" /\ Len(At(t, y).d) >= 4
       THEN y ELSE 0

\* r'q(\d)'
QuarterAt(t, p) == IsLetter(At(t, p), "q") /\ At(t, p + 1).k = "num"

NoFiscal == [quarter |-> 0, year |-> 0]

\* r'(?:fy|fiscal\s*year)\s*(\d{4}).*?q(\d)': the leftmost fiscal year that a
\* quarter follows, with the first quarter after it.
FiscalYearFirst(t) ==
    LET starts == {p \in 1..Len(t) :
                      /\ FiscalYearAt(t, p) # 0
                      /\ \E q \in (FiscalYearAt(t, p) + 1)..Len(t) : QuarterAt(t, q)}
    IN IF starts = {} THEN NoFiscal
       ELSE LET y == FiscalYearAt(t, Min(starts))
                q == Min({q \in (y + 1)..Len(t) : QuarterAt(t, q)})
            IN [quarter |-> t[q + 1].d[1], year |-> int(SubSeq(t[y].d, 1, 4))]

\* r'q(\d).*?(?:fy|fiscal\s*year)\s*(\d{4})': the leftmost quarter that a
\* fiscal year follows, with the first fiscal year after it.
QuarterFirst(t) ==
    LET starts == {p \in 1..Len(t) :
                      /\ QuarterAt(t, p)
                      /\ \E f \in (p + 2)..Len(t) : FiscalYearAt(t, f) # 0}
    IN IF starts = {} THEN NoFiscal
       ELSE LET q == Min(starts)
                f == Min({f \in (q + 2)..Len(t) : FiscalYearAt(t, f) # 0})
            IN [quarter |-> t[q + 1].d[1],
                year |-> int(SubSeq(t[FiscalYearAt(t, f)].d, 1, 4))]

\* The end date of the calendar quarter of the same number.
FiscalQuarterEnd_calendar(year, quarter) ==
    CASE quarter = 1 -> datetime(year, 3, 31)
      [] quarter = 2 -> datetime(year, 6, 30)
      [] quarter = 3 -> datetime(year, 9, 30)
      [] OTHER -> datetime(year, 12, 31)

\* The fiscal quarter's end date.
FiscalQuarterEnd(year, quarter) ==
    CASE quarter = 1 -> datetime(year - 1, 12, 31)
      [] quarter = 2 -> datetime(year, 3, 31)
      [] quarter = 3 -> datetime(year, 6, 30)
      [] OTHER -> datetime(year, 9, 30)

\* r'\b(\d{4})[-_]?q(\d)\b': the position of the quarter digit of a match that
\* starts at p, 0 if there is none.
CalendarQuarterAt(t, p) ==
    LET q == IF IsSep(At(t, p + 1), {"-", "_"}) THEN p + 2 ELSE p + 1
    IN IF /\ IsDigits(At(t, p), 4) /\ BoundaryBefore(t, p)
          /\ IsLetter(At(t, q), "q")
          /\ IsDigits(At(t, q + 1), 1) /\ BoundaryAfter(t, q + 1)
       THEN q + 1 ELSE 0

\* r'\b(20\d{2})\b'
BareYearAt(t, p) ==
    /\ IsDigits(At(t, p), 4) /\ At(t, p).d[1] = 2 /\ At(t, p).d[2] = 0
    /\ BoundaryBefore(t, p) /\ BoundaryAfter(t, p)

\* The patterns after the month names, each decided by the first match of its
\* regex: year-month, fiscal year and quarter, calendar quarter, bare year.
AfterMonthNames(t) ==
    LET ym == {p \in 1..Len(t) : YearMonthAt(t, p)}
        year == IF ym = {} THEN 0 ELSE int(t[Min(ym)].d)
        month == IF ym = {} THEN 0 ELSE int(t[Min(ym) + 2].d)
        fy == IF FiscalYearFirst(t) # NoFiscal THEN FiscalYearFirst(t) ELSE QuarterFirst(t)
        cq == {p \in 1..Len(t) : CalendarQuarterAt(t, p) # 0}
        quarter == IF cq = {} THEN 0 ELSE t[CalendarQuarterAt(t, Min(cq))].d[1]
        by == {p \in 1..Len(t) : BareYearAt(t, p)}
    IN IF ym # {} /\ month \in 1..12 /\ year \in 2000..2100
       THEN datetime(year, month, 1)
       ELSE IF fy.quarter # 0 /\ fy.year # 0 /\ fy.quarter \in 1..4
       THEN FiscalQuarterEnd(fy.year, fy.quarter)
       ELSE IF cq # {} /\ quarter \in 1..4
       THEN datetime(int(t[Min(cq)].d), (quarter - 1) * 3 + 1, 1)
       ELSE IF by # {}
       THEN datetime(int(t[Min(by)].d), 1, 1)
       ELSE Absent

extract_date_from_text(t) ==
    LET lowered == lower(t)
        by_month_name == SearchMonthNames(lowered, 1)
    IN IF by_month_name # NoMatch THEN by_month_name ELSE AfterMonthNames(lowered)

\* ------------------------------------------------------------ the texts
\* The link texts, file names and URLs the extractor is called with.  The
\* digits of a year, of a month and of a quarter:
Years == {<<0, 0, 0, 0>>, <<0, 0, 0, 1>>, <<1, 9, 9, 9>>, <<2, 0, 0, 0>>, <<2, 0, 2, 6>>,
          <<2, 1, 0, 0>>, <<2, 1, 0, 1>>, <<9, 9, 9, 9>>}
MonthDigits == {<<0>>, <<1>>, <<5>>, <<0, 5>>, <<1, 2>>, <<1, 3>>, <<0, 0>>, <<9, 9>>}
QuarterDigits == 0..9
CommonSeparators == {" ", "-", "_", ".", "/", ","}
OneOrNone(chars) == {<<>>} \cup {<<Sep(ch)>> : ch \in chars}
FiscalWords == {"fy", "fiscalyear", "fiscal year"}

\* "February 2026", "feb-2026", "Feb2026", "feb_2026", ...
MonthYearText(name, sep, y) == <<Mon(name)>> \o sep \o <<Num(y)>>
MonthYearTexts ==
    {MonthYearText(month_names[i].name, sep, y) :
        i \in 1..Len(month_names), sep \in OneOrNone(CommonSeparators), y \in Years}
\* "2026-02", "2026_2", ...
YearMonthText(y, ch, m) == <<Num(y), Sep(ch), Num(m)>>
YearMonthTexts == {YearMonthText(y, ch, m) : y \in Years, ch \in {"-", "_"}, m \in MonthDigits}
\* "FY2025_Q3", "fiscal year 2025 q3", ...
FiscalYearFirstText(w, sp, y, sep, q) == <<Fy(w)>> \o sp \o <<Num(y)>> \o sep \o <<Qu, Num(<<q>>)>>
FiscalYearFirstTexts ==
    {FiscalYearFirstText(w, sp, y, sep, q) :
        w \in FiscalWords, sp \in OneOrNone({" "}), y \in Years,
        sep \in OneOrNone({" ", "_", "-"}), q \in QuarterDigits}
\* "Q3 FY2025", "q3_fy 2025", ...
QuarterFirstText(w, sp, y, sep, q) == <<Qu, Num(<<q>>)>> \o sep \o <<Fy(w)>> \o sp \o <<Num(y)>>
QuarterFirstTexts ==
    {QuarterFirstText(w, sp, y, sep, q) :
        w \in FiscalWords, sp \in OneOrNone({" "}), y \in Years,
        sep \in OneOrNone({" ", "_", "-"}), q \in QuarterDigits}
\* "2026Q2", "2026-Q2", ...
CalendarQuarterTexts ==
    {<<Num(y)>> \o sep \o <<Qu, Num(<<q>>)>> :
        y \in Years, sep \in OneOrNone({"-", "_"}), q \in QuarterDigits}
\* "2026"
YearTexts == {<<Num(y)>> : y \in Years}

\* The characters around a date in a file name, a link text or a URL path.
Fillers == {<<Word>>} \cup {<<Sep(ch)>> : ch \in {"_", " ", ".", "-", "/"}}
\* Date substrings a longer text is made of.
DateParts ==
    { <<Mon("feb"), Sep(" "), Num(<<2, 0, 2, 6>>)>>,
      <<Mon("jan"), Sep(" "), Num(<<2, 0, 2, 5>>)>>,
      <<Num(<<2, 0, 2, 4>>), Sep("-"), Num(<<0, 5>>)>>,
      <<Num(<<2, 0, 2, 4>>), Sep("-"), Num(<<2, 5>>)>>,
      <<Fy("fy"), Num(<<2, 0, 2, 5>>), Sep("_"), Qu, Num(<<3>>)>>,
      <<Qu, Num(<<1>>), Sep(" "), Fy("fy"), Num(<<2, 0, 2, 5>>)>>,
      <<Fy("fy"), Num(<<2, 0, 2, 5>>), Sep(" "), Qu, Num(<<7>>)>>,
      <<Num(<<2, 0, 2, 6>>), Qu, Num(<<2>>)>>,
      <<Num(<<2, 0, 2, 6>>)>> }
Parts == Fillers \cup DateParts

\* a + b, as characters: the digits at the end of a and at the start of b are
\* one run of digits.
Join(a, b) ==
    IF a # <<>> /\ b # <<>> /\ a[Len(a)].k = "num" /\ Head(b).k = "num"
    THEN SubSeq(a, 1, Len(a) - 1) \o <<Num(a[Len(a)].d \o Head(b).d)>> \o Tail(b)
    ELSE a \o b

RECURSIVE PartTexts(_)
PartTexts(n) ==
    IF n = 0 THEN {<<>>}
    ELSE LET shorter == PartTexts(n - 1)
         IN shorter \cup {Join(t, part) : t \in shorter, part \in Parts}

\* The letters of a text in one case.
InCase(t, c) == [i \in DOMAIN t |-> IF t[i].k \in Letters THEN [t[i] EXCEPT !.c = c] ELSE t[i]]
Cases == {"lower", "upper"}

Texts ==
    {InCase(t, c) :
        t \in MonthYearTexts \cup YearMonthTexts \cup FiscalYearFirstTexts \cup QuarterFirstTexts
              \cup CalendarQuarterTexts \cup YearTexts \cup PartTexts(MaxParts),
        c \in Cases}

\* ----------------------------------------------------------------- http_get
\* A call of http_get: where it is, what the server will do to each request
\* that is made (plan), the loop variable, what the call has done so far (log:
\* the sleeps, in milliseconds, and the requests with their outcomes) and how
\* it ended.
NoCall == [pc |-> "none", plan |-> <<>>, attempt |-> 0, log |-> <<>>, result |-> None]

\* requests.get(...) and resp.raise_for_status(): a response, or one of the
\* requests.RequestException the except clause catches.
RequestExceptions == {"ConnectionError", "Timeout", "HTTPError"}
RequestOutcomes == {"ok"} \cup RequestExceptions

Event(e, outcome, ms) == [e |-> e, outcome |-> outcome, ms |-> ms]

RECURSIVE Pow(_, _)
Pow(b, e) == IF e = 0 THEN 1 ELSE b * Pow(b, e - 1)

\* A wait that grows by RETRY_BACKOFF seconds with every attempt.
wait_time_linear(attempt) == RETRY_BACKOFF * attempt

\* wait_time = RETRY_BACKOFF ** attempt
wait_time(attempt) == Pow(RETRY_BACKOFF, attempt)

\* ------------------------------------------------------------------ history
NoStep == [url |-> NoUrl, path |-> NoPath, method |-> None, outcome |-> None,
           captured |-> None, before |-> None, first_in_run |-> FALSE,
           was_indexed |-> FALSE, was_on_disk |-> FALSE]

\* hist after a handler step on url u with destination p: the outcome of the
\* download ("skip" when it is not attempted), what is_file_in_manifest
\* returned ("yes" or "no"), where the handler called it, and what held before the step: the
\* result of the last download attempt to p, whether this run had attempted u,
\* whether u was in the index and whether p was on disk.
Record(u, p, o, captured) ==
    [hist EXCEPT
        !.last = [url |-> u, path |-> p, method |-> config[src].method, outcome |-> o,
                  captured |-> captured, before |-> hist.last_attempt[p],
                  first_in_run |-> u \notin hist.attempts,
                  was_indexed |-> u \in DOMAIN files_by_url,
                  was_on_disk |-> disk[p] # NoFile],
        !.attempts = IF o = "skip" THEN @ ELSE @ \cup {u},
        !.last_attempt = IF o = "skip" THEN @
                         ELSE [@ EXCEPT ![p] = IF o = "ok" THEN "success" ELSE "failed"]]

Init ==
    /\ pc = "idle"
    /\ runs = 0
    /\ config \in Configs
    /\ run_date = 1000
    /\ src = 0
    /\ work = <<>>
    /\ downloaded = 0
    /\ manifest_entries = <<>>
    /\ files_by_url = EmptyIndex
    /\ disk = [p \in Paths |-> NoFile]
    /\ manifest_file = MissingFile
    /\ hist = [loaded |-> EmptyManifest, attempts |-> {}, last |-> NoStep,
               last_attempt |-> [p \in Paths |-> "none"],
               exit |-> None, before_write |-> MissingFile, calls |-> <<>>]
    /\ text = <<>>
    /\ detected = NotCalled
    /\ links = <<>>
    /\ within_months = 12
    /\ recent_links = <<>>
    /\ http = NoCall

\* ------------------------------------------------------------------ main
\* main, lines 2367-2388: run_date = datetime.now(), load the manifest.
StartRun ==
    /\ pc = "idle"
    /\ runs < MaxRuns
    /\ runs' = runs + 1
    /\ run_date' = run_date + 1
    /\ LET manifest == load_manifest(manifest_file)
       IN /\ manifest_entries' = manifest.entries
          /\ files_by_url' = manifest.files_by_url
          /\ hist' = [hist EXCEPT !.loaded = manifest, !.exit = None]
    /\ src' = 1
    /\ work' = <<>>
    /\ downloaded' = 0
    /\ pc' = "sources"
    /\ UNCHANGED <<config, text, detected, links, within_months, recent_links, http, disk,
                   manifest_file>>

\* The end of a handler: main's loop goes to the next source, or to the write
\* of the manifest after the last one.
NextSource ==
    /\ work' = <<>>
    /\ downloaded' = 0
    /\ IF src = Len(config)
       THEN pc' = "write" /\ src' = src
       ELSE pc' = pc /\ src' = src + 1

InHandler(m) ==
    /\ pc = "sources"
    /\ config[src].method = m

\* ---------------------------------------------------------------- entries
SuccessEntry(source, u, path, date, content, at) ==
    Entry(u, path, date, source.method, "success", hash_file(content), at)
\* A failed entry that keeps the destination path.
FailedEntry_keeps_path(source, u, date) ==
    Entry(u, DestPath(source, u), date, source.method, "download_failed", NoHash, NoDate)
FailedEntry(source, u, date) ==
    Entry(u, NoPath, date, source.method, "download_failed", NoHash, NoDate)
NoFilesEntry(source) ==
    Entry(source.page_url, NoPath, NoDate, source.method, "no_files_found", NoHash, NoDate)
NoNewReleaseEntry(source) ==
    Entry(source.page_url, NoPath, NoDate, source.method, "no_new_release", NoHash, NoDate)
SkippedEntry(source) ==
    Entry(source.page_url, NoPath, NoDate, source.method, "skipped", NoHash, NoDate)
\* The entry of "except Exception as e" at the end of a handler.
ErrorEntry(source) ==
    Entry(source.page_url, NoPath, NoDate, source.method, "error", NoHash, NoDate)

\* sorted(recent, key=lambda x: x[2] or datetime.min, reverse=True): stable,
\* newest first.
\* An insertion that puts a link before those of its date.
RECURSIVE Insert_before_equal(_, _)
Insert_before_equal(sorted, link) ==
    IF sorted = <<>> THEN <<link>>
    ELSE IF Head(sorted).detected_date > link.detected_date
         THEN <<Head(sorted)>> \o Insert_before_equal(Tail(sorted), link)
         ELSE <<link>> \o sorted

RECURSIVE Insert(_, _)
Insert(sorted, link) ==
    IF sorted = <<>> THEN <<link>>
    ELSE IF Head(sorted).detected_date >= link.detected_date
         THEN <<Head(sorted)>> \o Insert(Tail(sorted), link)
         ELSE <<link>> \o sorted
RECURSIVE SortRecent(_)
SortRecent(recent) ==
    IF recent = <<>> THEN <<>>
    ELSE Insert(SortRecent(SubSeq(recent, 1, Len(recent) - 1)), recent[Len(recent)])

Take(s, n) == SubSeq(s, 1, IF Len(s) < n THEN Len(s) ELSE n)

\* The step after the current link: the next link of the loop, or the end of
\* the handler.
Continue ==
    IF Tail(work) = <<>> THEN NextSource
    ELSE work' = Tail(work) /\ UNCHANGED <<pc, src, downloaded>>

\* ------------------------------------------------------ handle_direct_file
DirectFile ==
    /\ InHandler("direct_file")
    /\ \E outcome \in Outcomes :
         LET source == config[src]
             url == source.url
             dest_path == DestPath(source, url)
             files == download_file(disk, url, dest_path, outcome)
         IN /\ disk' = files
            /\ manifest_entries' = append(manifest_entries,
                   IF outcome = "ok"
                   THEN SuccessEntry(source, url, dest_path, run_date, files[dest_path], NoDate)
                   ELSE FailedEntry(source, url, NoDate))
            /\ hist' = Record(url, dest_path, outcome, None)
    /\ NextSource
    /\ UNCHANGED <<runs, config, text, detected, links, within_months, recent_links, http,
                   run_date, files_by_url, manifest_file>>

\* ------------------------------------------------ handle_scrape_or_pattern
\* Up to the loop: the links of the page, filtered by pick_recent_links.
ScrapeOrPatternStart ==
    /\ InHandler("scrape_or_pattern")
    /\ work = <<>>
    /\ \/ \E picked \in Listings :
            IF picked = <<>>
            THEN /\ manifest_entries' = append(manifest_entries, NoFilesEntry(config[src]))
                 /\ NextSource
            ELSE /\ work' = Take(SortRecent(picked), RecentLimit)
                 /\ UNCHANGED <<pc, src, downloaded, manifest_entries>>
       \* pick_recent_links raises (ValueError of extract_date_from_text)
       \/ /\ manifest_entries' = append(manifest_entries, ErrorEntry(config[src]))
          /\ NextSource
    /\ UNCHANGED <<runs, config, text, detected, links, within_months, recent_links, http,
                   run_date, files_by_url, disk, manifest_file, hist>>

\* One iteration of the download loop.
ScrapeOrPatternStep ==
    /\ InHandler("scrape_or_pattern")
    /\ work # <<>>
    /\ \E outcome \in Outcomes :
         LET source == config[src]
             link == Head(work)
             dest_path == DestPath(source, link.url)
             files == download_file(disk, link.url, dest_path, outcome)
         IN /\ disk' = files
            /\ manifest_entries' = append(manifest_entries,
                   IF outcome = "ok"
                   THEN SuccessEntry(source, link.url, dest_path, link.detected_date,
                                     files[dest_path], NoDate)
                   ELSE FailedEntry(source, link.url, link.detected_date))
            /\ hist' = Record(link.url, dest_path, outcome, None)
    /\ Continue
    /\ UNCHANGED <<runs, config, text, detected, links, within_months, recent_links, http,
                   run_date, files_by_url, manifest_file>>

\* ------------------------------------------------------------ handle_scrape
ScrapeStart ==
    /\ InHandler("scrape")
    /\ work = <<>>
    /\ \/ \E picked \in Listings :
            IF picked = <<>>
            THEN /\ manifest_entries' = append(manifest_entries, NoFilesEntry(config[src]))
                 /\ NextSource
            ELSE /\ work' = SortRecent(picked)
                 /\ downloaded' = 0
                 /\ UNCHANGED <<pc, src, manifest_entries>>
       \* pick_recent_links raises (ValueError of extract_date_from_text)
       \/ /\ manifest_entries' = append(manifest_entries, ErrorEntry(config[src]))
          /\ NextSource
    /\ UNCHANGED <<runs, config, text, detected, links, within_months, recent_links, http,
                   run_date, files_by_url, disk, manifest_file, hist>>

ScrapeStep ==
    /\ InHandler("scrape")
    /\ work # <<>>
    /\ LET source == config[src]
           link == Head(work)
           dest_path == DestPath(source, link.url)
       IN IF downloaded >= DownloadLimit
          THEN \* break
               /\ NextSource
               /\ UNCHANGED <<disk, manifest_entries, hist>>
          ELSE IF disk[dest_path] # NoFile
          THEN \* the file exists: continue
               /\ hist' = Record(link.url, dest_path, "skip", None)
               /\ Continue
               /\ UNCHANGED <<disk, manifest_entries>>
          ELSE \E outcome \in Outcomes :
               LET files == download_file(disk, link.url, dest_path, outcome)
               IN /\ disk' = files
                  /\ IF outcome = "ok"
                     THEN /\ manifest_entries' = append(manifest_entries,
                                 SuccessEntry(source, link.url, dest_path,
                                              link.detected_date, files[dest_path], NoDate))
                          /\ IF Tail(work) = <<>> THEN NextSource
                             ELSE /\ work' = Tail(work)
                                  /\ downloaded' = downloaded + 1
                                  /\ UNCHANGED <<pc, src>>
                     ELSE /\ UNCHANGED manifest_entries
                          /\ Continue
                  /\ hist' = Record(link.url, dest_path, outcome, None)
    /\ UNCHANGED <<runs, config, text, detected, links, within_months, recent_links, http,
                   run_date, files_by_url, manifest_file>>

\* ---------------------------------------------- handle_uscis_employment_data
\* Up to the loop: the files of all pages.  The modelled file URLs carry the
\* same fiscal year and quarter, so there is one year directory and the loop
\* visits the files in the order they were found.
UscisStart ==
    /\ InHandler("uscis_employment_data")
    /\ work = <<>>
    /\ \E all_employment_files \in Listings :
         IF all_employment_files = <<>>
         THEN /\ manifest_entries' = append(manifest_entries, NoFilesEntry(config[src]))
              /\ NextSource
         ELSE /\ work' = all_employment_files
              /\ UNCHANGED <<pc, src, downloaded, manifest_entries>>
    /\ UNCHANGED <<runs, config, text, detected, links, within_months, recent_links, http,
                   run_date, files_by_url, disk, manifest_file, hist>>

UscisStep ==
    /\ InHandler("uscis_employment_data")
    /\ work # <<>>
    /\ LET source == config[src]
           link == Head(work)
           file_url == link.url
           dest_path == DestPath(source, file_url)
       IN IF is_file_in_manifest(file_url, dest_path, files_by_url, disk)
          THEN \* already downloaded: continue
               /\ hist' = Record(file_url, dest_path, "skip", "yes")
               /\ UNCHANGED <<disk, manifest_entries, files_by_url>>
          ELSE \E outcome \in Outcomes :
               LET files == download_file(disk, file_url, dest_path, outcome)
                   entry == SuccessEntry(source, file_url, dest_path, link.detected_date,
                                         files[dest_path], run_date)
               IN /\ disk' = files
                  /\ IF outcome = "ok"
                     THEN /\ manifest_entries' = append(manifest_entries, entry)
                          /\ files_by_url' = Put(files_by_url, file_url, entry)
                     ELSE UNCHANGED <<manifest_entries, files_by_url>>
                  /\ hist' = Record(file_url, dest_path, outcome, "no")
    /\ Continue
    /\ UNCHANGED <<runs, config, text, detected, links, within_months, recent_links, http,
                   run_date, manifest_file>>

\* ------------------------------------------------ handle_scrape_if_available
\* The handler looks at no date: the links are taken as the page lists them.
ScrapeIfAvailableStart ==
    /\ InHandler("scrape_if_available")
    /\ work = <<>>
    /\ \E found \in UndatedListings :
         IF found = <<>>
         THEN /\ manifest_entries' = append(manifest_entries, NoNewReleaseEntry(config[src]))
              /\ NextSource
         ELSE /\ work' = Take(found, AvailableLimit)
              /\ UNCHANGED <<pc, src, downloaded, manifest_entries>>
    /\ UNCHANGED <<runs, config, text, detected, links, within_months, recent_links, http,
                   run_date, files_by_url, disk, manifest_file, hist>>

ScrapeIfAvailableStep ==
    /\ InHandler("scrape_if_available")
    /\ work # <<>>
    /\ LET source == config[src]
           link == Head(work)
           dest_path == DestPath(source, link.url)
       IN IF disk[dest_path] # NoFile
          THEN \* the file exists: continue
               /\ hist' = Record(link.url, dest_path, "skip", None)
               /\ UNCHANGED <<disk, manifest_entries>>
          ELSE \E outcome \in Outcomes :
               LET files == download_file(disk, link.url, dest_path, outcome)
               IN /\ disk' = files
                  /\ manifest_entries' =
                        IF outcome = "ok"
                        THEN append(manifest_entries,
                                    SuccessEntry(source, link.url, dest_path, run_date,
                                                 files[dest_path], NoDate))
                        ELSE manifest_entries
                  /\ hist' = Record(link.url, dest_path, outcome, None)
    /\ Continue
    /\ UNCHANGED <<runs, config, text, detected, links, within_months, recent_links, http,
                   run_date, files_by_url, manifest_file>>

\* ------------------------------------------------------ handle_manual_or_auth
ManualOrAuth ==
    /\ InHandler("manual_or_auth")
    /\ manifest_entries' = append(manifest_entries, SkippedEntry(config[src]))
    /\ NextSource
    /\ UNCHANGED <<runs, config, text, detected, links, within_months, recent_links, http,
                   run_date, files_by_url, disk, manifest_file, hist>>

\* ------------------------------------------------------- main, end of run
\* The process ends: its memory is gone, the files stay.
Exit(how) ==
    /\ pc' = "idle"
    /\ src' = 0
    /\ work' = <<>>
    /\ downloaded' = 0
    /\ manifest_entries' = <<>>
    /\ files_by_url' = EmptyIndex
    /\ hist' = [hist EXCEPT !.exit = how, !.loaded = EmptyManifest, !.attempts = {},
                            !.last = NoStep,
                            !.before_write = IF pc = "write" THEN manifest_file ELSE @]
    /\ UNCHANGED <<runs, config, text, detected, links, within_months, recent_links, http,
                   run_date, disk, manifest_file>>

\* manifest_path.write_text(...): the file is opened for writing, which
\* empties it, ...
WriteOpen ==
    /\ pc = "write"
    /\ manifest_file' = GarbageFile
    /\ hist' = [hist EXCEPT !.before_write = manifest_file]
    /\ pc' = "writing"
    /\ UNCHANGED <<runs, config, text, detected, links, within_months, recent_links, http,
                   run_date, src, work, downloaded, manifest_entries, files_by_url, disk>>

\* ... and the document is written and the file closed.
WriteClose ==
    /\ pc = "writing"
    /\ LET doc == final_manifest(run_date, manifest_entries)
       IN /\ manifest_file' = File("json", doc)
          /\ UNCHANGED hist
    /\ pc' = "zip"
    /\ UNCHANGED <<runs, config, text, detected, links, within_months, recent_links, http,
                   run_date, src, work, downloaded, manifest_entries, files_by_url, disk>>

\* write_text raises OSError: at open (the file is left as it was) or while
\* writing (the file is left cut off).  main does not catch it.
WriteFails ==
    /\ pc \in {"write", "writing"}
    /\ Exit("write_error")

CreateZip ==
    /\ pc = "zip"
    /\ pc' = "summary"
    /\ UNCHANGED <<runs, config, text, detected, links, within_months, recent_links, http,
                   run_date, src, work, downloaded, manifest_entries, files_by_url, disk,
                   manifest_file, hist>>

\* print_summary reads e['status'] of every entry: KeyError for an entry
\* object without that key.
PrintSummary ==
    /\ pc = "summary"
    /\ Exit(IF \E k \in 1..Len(manifest_entries) : manifest_entries[k].status = Missing
            THEN "key_error" ELSE "done")

\* ------------------------------------------------------------ environment
\* The process is killed during a run.
Interrupt ==
    /\ pc # "idle"
    /\ Exit("killed")

\* Between runs a downloaded file is deleted.
DeleteFile ==
    /\ pc = "idle"
    /\ runs < MaxRuns
    /\ \E p \in Paths :
         /\ disk[p] # NoFile
         /\ disk' = [disk EXCEPT ![p] = NoFile]
    /\ UNCHANGED <<pc, runs, config, text, detected, links, within_months, recent_links, http,
                   run_date, src, work, downloaded, manifest_entries, files_by_url,
                   manifest_file, hist>>

\* Between runs the manifest file is replaced by a file that is no manifest.
BadFiles == {File("not_object", NoDoc), File("entries_bad", NoDoc),
             File("no_entries", NoDoc),
             File("json", [NoDoc EXCEPT !.entries = <<ForeignEntry>>])}
DamageManifest ==
    /\ pc = "idle"
    /\ runs < MaxRuns
    /\ manifest_file' \in BadFiles
    /\ UNCHANGED <<pc, runs, config, text, detected, links, within_months, recent_links, http,
                   run_date, src, work, downloaded, manifest_entries, files_by_url, disk, hist>>

Next ==
    \/ StartRun
    \/ DirectFile
    \/ ScrapeOrPatternStart
    \/ ScrapeOrPatternStep
    \/ ScrapeStart
    \/ ScrapeStep
    \/ UscisStart
    \/ UscisStep
    \/ ScrapeIfAvailableStart
    \/ ScrapeIfAvailableStep
    \/ ManualOrAuth
    \/ WriteOpen
    \/ WriteClose
    \/ WriteFails
    \/ CreateZip
    \/ PrintSummary
    \/ Interrupt
    \/ DeleteFile
    \/ DamageManifest

Spec == Init /\ [][Next]_vars

\* ------------------------------------------------- the date extractor alone
\* A call of extract_date_from_text with any of the texts; the fetcher is not
\* running.
DateInit ==
    /\ pc = "idle"
    /\ runs = 0
    /\ config = <<Source("scrape")>>
    /\ run_date = 1000
    /\ src = 0
    /\ work = <<>>
    /\ downloaded = 0
    /\ manifest_entries = <<>>
    /\ files_by_url = EmptyIndex
    /\ disk = [p \in Paths |-> NoFile]
    /\ manifest_file = MissingFile
    /\ hist = [loaded |-> EmptyManifest, attempts |-> {}, last |-> NoStep,
               last_attempt |-> [p \in Paths |-> "none"],
               exit |-> None, before_write |-> MissingFile, calls |-> <<>>]
    /\ text \in Texts
    /\ detected = NotCalled
    /\ links = <<>>
    /\ within_months = 12
    /\ recent_links = <<>>
    /\ http = NoCall

ExtractDate ==
    /\ detected = NotCalled
    /\ detected' = extract_date_from_text(text)
    /\ UNCHANGED <<pc, runs, config, run_date, src, work, downloaded, manifest_entries,
                   files_by_url, disk, manifest_file, hist, text, links, within_months,
                   recent_links, http>>

DateNext == ExtractDate

SpecDate == DateInit /\ [][DateNext]_vars

\* ------------------------------------------------------ the selection alone
\* datetime.toordinal(): the days from 0001-01-01, which is day 1.
DaysBeforeYear(y) == (y - 1) * 365 + (y - 1) \div 4 - (y - 1) \div 100 + (y - 1) \div 400
RECURSIVE DaysBeforeMonth(_, _)
DaysBeforeMonth(y, m) ==
    IF m = 1 THEN 0 ELSE DaysBeforeMonth(y, m - 1) + DaysInMonth(y, m - 1)
toordinal(d) == DaysBeforeYear(d.year) + DaysBeforeMonth(d.year, d.month) + d.day

\* The datetime extract_date_from_text returns is at midnight.
Midnight(d) == toordinal(d) * TicksPerDay

\* A window that is open at its start.
is_within_months_strict(dt, reference, months) ==
    LET cutoff == reference - timedelta(months * 30)
    IN dt > cutoff

\* A window that ends at the reference.
is_within_months_closed(dt, reference, months) ==
    LET cutoff == reference - timedelta(months * 30)
    IN dt >= cutoff /\ dt <= reference

is_within_months(dt, reference, months) ==
    LET cutoff == reference - timedelta(months * 30)
    IN dt >= cutoff

\* The URL's date before the text's.
date_from_url_or_text(date_from_text, date_from_url) ==
    IF date_from_url # Absent THEN date_from_url ELSE date_from_text

\* detected_date = date_from_text or date_from_url
date_from_text_or_url(date_from_text, date_from_url) ==
    IF date_from_text # Absent THEN date_from_text ELSE date_from_url

\* The links of a page: (url, text) pairs.
Link(url, label) == [url |-> url, text |-> label]
March2025 == <<Mon("mar"), Sep(" "), Num(<<2, 0, 2, 5>>)>>
Candidates ==
    { Link(<<Word>>, March2025),
      Link(<<Word, Sep("/"), Num(<<2, 0, 2, 5>>), Sep("-"), Num(<<0, 3>>)>>, <<Word>>),
      Link(<<Word>>, <<Word>>),
      Link(<<Word, Sep("/"), Num(<<2, 0, 2, 4>>), Sep("-"), Num(<<0, 5>>)>>, March2025),
      Link(<<Word>>, <<Mon("feb"), Sep(" "), Num(<<2, 0, 2, 5>>)>>),
      Link(<<Word>>, <<Mon("jan"), Sep(" "), Num(<<2, 0, 2, 7>>)>>),
      Link(<<Word>>, <<Mon("feb"), Sep(" "), Num(<<0, 0, 0, 0>>)>>),
      Link(<<Mon("feb"), Sep("-"), Num(<<0, 0, 0, 0>>)>>, March2025) }

\* The candidates that vary in a long page: all dated, two of them with the same
\* date.
RecentCandidates ==
    { Link(<<Word>>, March2025),
      Link(<<Word, Sep("/"), Num(<<2, 0, 2, 5>>), Sep("-"), Num(<<0, 3>>)>>, <<Word>>),
      Link(<<Word>>, <<Mon("jan"), Sep(" "), Num(<<2, 0, 2, 7>>)>>) }

\* extract_date_from_text of the texts and URLs of the candidates.
CandidateTexts ==
    {link.text : link \in Candidates \cup RecentCandidates}
        \cup {link.url : link \in Candidates \cup RecentCandidates}
DateIn == [t \in CandidateTexts |-> extract_date_from_text(t)]

\* The body of the loop of pick_recent_links for a link whose text and URL
\* gave a date: acc with the call of is_within_months and, when the date is
\* inside the window, with (url, text, detected_date).
pick_dated(link, dt, reference_date, months, within, acc) ==
    [acc EXCEPT
        !.calls = Append(@, [dt |-> dt, reference |-> reference_date, months |-> months,
                             result |-> within]),
        !.recent = IF within
                   THEN Append(@, [url |-> link.url, text |-> link.text, detected_date |-> dt])
                   ELSE @]

\* The body of the loop for one link, given what extract_date_from_text
\* returned for its text and its URL.
pick_link(link, date_from_text, date_from_url, detected_date, reference_date, months, acc) ==
    IF date_from_text = ValueError \/ date_from_url = ValueError
    THEN [acc EXCEPT !.raised = TRUE]
    ELSE IF detected_date = Absent THEN acc
    ELSE pick_dated(link, Midnight(detected_date), reference_date, months,
                    is_within_months(Midnight(detected_date), reference_date, months), acc)

\* pick_recent_links, the loop from link k on.  acc holds the list recent, the
\* calls of is_within_months made so far with their results, and whether
\* extract_date_from_text has raised, which ends the loop.
RECURSIVE pick_loop(_, _, _, _, _)
pick_loop(candidates, k, reference_date, months, acc) ==
    IF k > Len(candidates) \/ acc.raised THEN acc
    ELSE pick_loop(candidates, k + 1, reference_date, months,
             pick_link(candidates[k], DateIn[candidates[k].text], DateIn[candidates[k].url],
                       date_from_text_or_url(DateIn[candidates[k].text],
                                             DateIn[candidates[k].url]),
                       reference_date, months, acc))

pick_recent_links(candidates, reference_date, months) ==
    pick_loop(candidates, 1, reference_date, months,
              [raised |-> FALSE, recent |-> <<>>, calls |-> <<>>])

\* The run dates: the days around 1 and 12 times 30 days after 2025-03-01, at
\* any instant of the day.
RunDates ==
    {Midnight(Date(2025, 3, 1)) + timedelta(days) + tick :
        days \in {29, 30, 31, 359, 360, 361}, tick \in 0..(TicksPerDay - 1)}

RECURSIVE SeqsOfLen(_, _)
SeqsOfLen(S, n) ==
    IF n = 0 THEN {<<>>} ELSE {Append(s, x) : s \in SeqsOfLen(S, n - 1), x \in S}

\* The links of a long page: MaxRecent dated links, any of the recent candidates
\* at its start and at its end and, between them, the link of March 2025 and
\* the one of January 2027 in turn.
LongPages ==
    LET between == [i \in 1..(MaxRecent - 2 * MaxLinks) |->
                       IF i % 2 = 1 THEN Link(<<Word>>, March2025)
                       ELSE Link(<<Word>>, <<Mon("jan"), Sep(" "), Num(<<2, 0, 2, 7>>)>>)]
    IN {first \o between \o last :
           first \in SeqsOfLen(RecentCandidates, MaxLinks),
           last \in SeqsOfLen(RecentCandidates, MaxLinks)}

\* handle_scrape_or_pattern is at its call of pick_recent_links, with the
\* links of a short page on any of the run dates, or with those of a long
\* page.  within_months is 12 in the handlers; the function takes any.
SelectInit ==
    /\ pc = "select"
    /\ runs = 1
    /\ config = <<Source("scrape_or_pattern")>>
    /\ src = 1
    /\ \/ /\ links \in SeqsUpTo(Candidates, MaxLinks)
          /\ run_date \in RunDates
          /\ within_months \in {1, 12}
       \/ /\ links \in LongPages
          /\ run_date = Midnight(Date(2025, 3, 1)) + timedelta(30)
          /\ within_months = 12
    /\ work = <<>>
    /\ downloaded = 0
    /\ manifest_entries = <<>>
    /\ files_by_url = EmptyIndex
    /\ disk = [p \in Paths |-> NoFile]
    /\ manifest_file = MissingFile
    /\ hist = [loaded |-> EmptyManifest, attempts |-> {}, last |-> NoStep,
               last_attempt |-> [p \in Paths |-> "none"],
               exit |-> None, before_write |-> MissingFile, calls |-> <<>>]
    /\ text = <<>>
    /\ detected = NotCalled
    /\ recent_links = <<>>
    /\ http = NoCall

\* handle_scrape_or_pattern from the call of pick_recent_links to the start of
\* the download loop: the entry for no recent file, the sort and the [:8], and
\* the error entry when the call raises.
SelectRecent ==
    /\ pc = "select"
    /\ LET picked == pick_recent_links(links, run_date, within_months)
       IN /\ hist' = [hist EXCEPT !.calls = picked.calls]
          /\ IF picked.raised
             THEN /\ pc' = "raised"
                  /\ manifest_entries' = append(manifest_entries, ErrorEntry(config[src]))
                  /\ UNCHANGED <<recent_links, work>>
             ELSE /\ pc' = "selected"
                  /\ recent_links' = picked.recent
                  /\ IF picked.recent = <<>>
                     THEN /\ manifest_entries' =
                                append(manifest_entries, NoFilesEntry(config[src]))
                          /\ UNCHANGED work
                     ELSE /\ work' = Take(SortRecent(picked.recent), RecentLimit)
                          /\ UNCHANGED manifest_entries
    /\ UNCHANGED <<runs, config, run_date, src, downloaded, files_by_url, disk, manifest_file,
                   text, detected, links, within_months, http>>

SelectNext == SelectRecent

SpecSelect == SelectInit /\ [][SelectNext]_vars

\* ----------------------------------------------------------- http_get alone
\* A call of http_get has started; the fetcher's files play no part.
HttpInit ==
    /\ pc = "idle"
    /\ runs = 0
    /\ config = <<Source("direct_file")>>
    /\ run_date = 1000
    /\ src = 0
    /\ work = <<>>
    /\ downloaded = 0
    /\ manifest_entries = <<>>
    /\ files_by_url = EmptyIndex
    /\ disk = [p \in Paths |-> NoFile]
    /\ manifest_file = MissingFile
    /\ hist = [loaded |-> EmptyManifest, attempts |-> {}, last |-> NoStep,
               last_attempt |-> [p \in Paths |-> "none"],
               exit |-> None, before_write |-> MissingFile, calls |-> <<>>]
    /\ text = <<>>
    /\ detected = NotCalled
    /\ links = <<>>
    /\ within_months = 12
    /\ recent_links = <<>>
    /\ \E plan \in SeqsOfLen(RequestOutcomes, MAX_RETRIES) :
          http = [NoCall EXCEPT !.pc = "jitter", !.plan = plan]

HttpUnchanged ==
    UNCHANGED <<pc, runs, config, run_date, src, work, downloaded, manifest_entries,
                files_by_url, disk, manifest_file, hist, text, detected, links,
                within_months, recent_links>>

\* time.sleep(random.uniform(REQUEST_JITTER_MIN, REQUEST_JITTER_MAX)), and
\* the loop starts with attempt 0.
HttpJitter ==
    /\ http.pc = "jitter"
    /\ \E jitter \in {REQUEST_JITTER_MIN, REQUEST_JITTER_MAX} :
          http' = [http EXCEPT !.pc = "request", !.attempt = 0,
                               !.log = Append(@, Event("jitter", None, jitter))]
    /\ HttpUnchanged

\* The try block: the request of this attempt; a response is returned.
HttpRequest ==
    /\ http.pc = "request"
    /\ LET outcome == http.plan[http.attempt + 1]
       IN http' = [http EXCEPT
                      !.log = Append(@, Event("request", outcome, 0)),
                      !.pc = IF outcome = "ok" THEN "returned" ELSE "except",
                      !.result = IF outcome = "ok" THEN "response" ELSE outcome]
    /\ HttpUnchanged

\* The except clause of an attempt that is not the last: sleep, then the next
\* attempt.
HttpRetry ==
    /\ http.pc = "except"
    /\ http.attempt < MAX_RETRIES - 1
    /\ http' = [http EXCEPT
                   !.log = Append(@, Event("backoff", None, 1000 * wait_time(http.attempt))),
                   !.attempt = @ + 1,
                   !.pc = "request"]
    /\ HttpUnchanged

\* The except clause of the last attempt: raise.
HttpRaise ==
    /\ http.pc = "except"
    /\ ~(http.attempt < MAX_RETRIES - 1)
    /\ http' = [http EXCEPT !.pc = "raised"]
    /\ HttpUnchanged

HttpNext ==
    \/ HttpJitter
    \/ HttpRequest
    \/ HttpRetry
    \/ HttpRaise

SpecHttp == HttpInit /\ [][HttpNext]_vars

\* -------------------------------------------------------------- properties
Attempted == hist.last.outcome \in Outcomes
Skipped == hist.last.outcome = "skip"

\* C1: an artifact with a success entry in the manifest loaded at the start of
\* the run, and whose local file is still there, is not downloaded again by any
\* handler in that run.
C1_NoRedownload ==
    Attempted => ~(/\ hist.last.url \in DOMAIN hist.loaded.files_by_url
                   /\ hist.last.was_on_disk)

\* C2: is_file_in_manifest returns true only if the URL is in the index and the
\* local file is on disk; for an indexed URL whose file was removed it returns
\* false.
C2_HasCapturedSound ==
    /\ hist.last.captured = "yes" => hist.last.was_indexed /\ hist.last.was_on_disk
    /\ (hist.last.captured # None /\ ~hist.last.was_on_disk) => hist.last.captured = "no"

\* C2, the case: the file of an indexed URL, once downloaded, was removed, and
\* is_file_in_manifest returned false for it.
C2_DeletedNotCaptured ==
    /\ hist.last.captured = "no"
    /\ hist.last.was_indexed
    /\ ~hist.last.was_on_disk
    /\ hist.last.before = "success"

\* C3: at every point of the write of the manifest, and after an interruption
\* at any step of it, the manifest file is the complete previous manifest or
\* the complete new one, never a cut-off document.
C3_AtomicWrite ==
    /\ pc = "writing" =>
          manifest_file \in {hist.before_write,
                             File("json", final_manifest(run_date, manifest_entries))}
    /\ (pc = "idle" /\ hist.exit = "killed") => manifest_file.kind # "garbage"

\* C4: a failure of the write of the manifest does not end the run, and leaves
\* the previous manifest as it was.
C4_WriteFailureIsWarning ==
    /\ hist.exit # "write_error"
    /\ hist.exit = "write_error" => manifest_file = hist.before_write

\* C5: an artifact whose most recent download attempt, in an earlier run,
\* failed is not skipped when a handler meets it again: the download is
\* attempted.
C5_FailedIsRetried ==
    (Skipped /\ hist.last.first_in_run) => hist.last.before # "failed"

\* C6: in handle_uscis_employment_data a successful download is recorded in one
\* step: the new entry is the last element of the entry list, the index maps
\* the URL to that same entry, and is_file_in_manifest is true for the URL from
\* then on in the run.
C6_RecordSuccess ==
    (hist.last.method = "uscis_employment_data" /\ hist.last.outcome = "ok") =>
        /\ manifest_entries # <<>>
        /\ LET entry == manifest_entries[Len(manifest_entries)]
           IN /\ entry.source_url = hist.last.url
              /\ entry.status = "success"
              /\ hist.last.url \in DOMAIN files_by_url
              /\ files_by_url[hist.last.url] = entry
        /\ is_file_in_manifest(hist.last.url, hist.last.path, files_by_url, disk)

\* C6, the case: a download of a URL that the loaded index already held (its
\* file was gone) was recorded, and the same URL is the next link of the loop.
C6_RecordedThenSeen ==
    /\ hist.last.method = "uscis_employment_data"
    /\ hist.last.outcome = "ok"
    /\ hist.last.was_indexed
    /\ work # <<>>
    /\ Head(work).url = hist.last.url

\* C7: every entry with status success in the entry list of the run has its
\* source_url as a key of the index.
C7_SuccessIndexed ==
    \A k \in 1..Len(manifest_entries) :
        manifest_entries[k].status = "success" =>
            manifest_entries[k].source_url \in DOMAIN files_by_url

\* C8: when the manifest file is missing, is not parseable or has not the
\* structure of a manifest, load_manifest returns an empty entry list and an
\* empty index.
IsManifest(file) ==
    /\ file.kind = "json"
    /\ \A k \in 1..Len(file.doc.entries) :
          /\ file.doc.entries[k].status # Missing
          /\ file.doc.entries[k].source_url # NoUrl
C8_LoadTolerant ==
    (pc \in {"sources", "write"} /\ ~IsManifest(manifest_file)) =>
        /\ hist.loaded.entries = <<>>
        /\ DOMAIN hist.loaded.files_by_url = {}

\* The entries of the manifest file as it was before the write of this run, and
\* the entries the write persisted.
OldEntries == IF hist.before_write.kind = "json" THEN hist.before_write.doc.entries ELSE <<>>
Persisted == manifest_file.doc.entries

\* C9 as claimed, for a run that read a well-formed manifest: the persisted
\* list is this run's entries after exactly those prior entries that are
\* successful and not superseded by a later entry with the same source_url.
Superseded(entries, k) ==
    \E j \in (k + 1)..Len(entries) : entries[j].source_url = entries[k].source_url
RECURSIVE Carried(_, _, _)
Carried(entries, k, n) ==
    IF k > n THEN <<>>
    ELSE (IF entries[k].status = "success" /\ ~Superseded(entries, k)
          THEN <<entries[k]>> ELSE <<>>) \o Carried(entries, k + 1, n)
C9_OnlyLiveSuccessesCarried ==
    (pc = "zip" /\ IsManifest(hist.before_write)) =>
        LET n == Len(hist.loaded.entries)
        IN Persisted = Carried(manifest_entries, 1, n)
                       \o SubSeq(manifest_entries, n + 1, Len(manifest_entries))

\* C9, amended: the persisted list is every entry of the manifest file read at
\* the start of the run, of any status and superseded or not, in the order of
\* the file, followed by the entries of this run.
C9_AllPriorCarried ==
    pc = "zip" =>
        /\ Len(Persisted) >= Len(OldEntries)
        /\ SubSeq(Persisted, 1, Len(OldEntries)) = OldEntries
        /\ Persisted = manifest_entries

\* C9, the case: the file read at the start held a failed entry and a
\* successful entry that this run superseded, and the write persisted both.
C9_FailedAndSupersededKept ==
    /\ pc = "zip"
    /\ \E k \in 1..Len(OldEntries) : OldEntries[k].status = "download_failed"
    /\ \E k \in 1..Len(OldEntries) :
          /\ OldEntries[k].status = "success"
          /\ \E j \in (Len(OldEntries) + 1)..Len(Persisted) :
                Persisted[j].source_url = OldEntries[k].source_url

\* A run has written its manifest over one that an earlier run wrote, and has
\* appended no entry of its own.
RewrittenUnchanged ==
    /\ pc = "zip"
    /\ hist.before_write.kind = "json"
    /\ hist.before_write.doc.run_date # NoDate
    /\ Len(manifest_entries) = Len(hist.loaded.entries)

\* After a reload, is_file_in_manifest is true for every entry whose file is
\* on disk.
ReloadCaptures ==
    pc # "idle" =>
        \A k \in 1..Len(hist.loaded.entries) :
            LET entry == hist.loaded.entries[k]
            IN (entry.local_path # NoPath /\ disk[entry.local_path] # NoFile) =>
                  is_file_in_manifest(entry.source_url, entry.local_path,
                                      hist.loaded.files_by_url, disk)

\* C10 as claimed: a second write of the same entries differs from the first
\* in the run_date field only.
C10_SameButRunDate ==
    /\ RewrittenUnchanged =>
          [manifest_file.doc EXCEPT !.run_date = 0]
              = [hist.before_write.doc EXCEPT !.run_date = 0]
    /\ ReloadCaptures

\* C10, amended: a second write of the same entries differs from the first in
\* the three fields that hold the time of the run (run_date, window_12m_start,
\* window_12m_end) only, and after a reload is_file_in_manifest is true for
\* every entry whose file is on disk.
Timeless(doc) == [doc EXCEPT !.run_date = 0, !.window_12m_start = 0, !.window_12m_end = 0]
C10_SameButRunTimes ==
    /\ RewrittenUnchanged => Timeless(manifest_file.doc) = Timeless(hist.before_write.doc)
    /\ ReloadCaptures

\* C10, the case: the manifest was written twice with the same entries, and a
\* reloaded entry has its file on disk.
C10_WrittenTwice ==
    /\ RewrittenUnchanged
    /\ \E k \in 1..Len(hist.loaded.entries) :
          /\ hist.loaded.entries[k].local_path # NoPath
          /\ disk[hist.loaded.entries[k].local_path] # NoFile

\* The URLs of the successful entries of a list, and the last successful entry
\* of a URL.
SuccessUrls(entries) ==
    {entries[k].source_url : k \in {j \in 1..Len(entries) : entries[j].status = "success"}}
LastSuccess(entries, u) ==
    entries[CHOOSE k \in 1..Len(entries) :
                /\ entries[k].status = "success" /\ entries[k].source_url = u
                /\ \A j \in (k + 1)..Len(entries) :
                      ~(entries[j].status = "success" /\ entries[j].source_url = u)]

\* C11: the index that load_manifest builds from the manifest file has a key u
\* exactly when the entry list of the file holds a successful entry with
\* source_url u, and maps u to the last such entry of the list; and no entry
\* with a status other than success is a value of the index of the run.
C11_IndexOfSuccesses ==
    /\ LET manifest == load_manifest(manifest_file)
       IN /\ DOMAIN manifest.files_by_url = SuccessUrls(manifest_file.doc.entries)
          /\ \A u \in DOMAIN manifest.files_by_url :
                manifest.files_by_url[u] = LastSuccess(manifest_file.doc.entries, u)
    /\ \A u \in DOMAIN files_by_url : files_by_url[u].status = "success"

\* C11, the case: a run has loaded a manifest that holds two different
\* successful entries of one URL.
C11_LoadedSeveralOfOneUrl ==
    /\ pc = "sources"
    /\ hist.loaded.entries = manifest_file.doc.entries
    /\ \E j, k \in 1..Len(hist.loaded.entries) :
          LET first == hist.loaded.entries[j]
              second == hist.loaded.entries[k]
          IN /\ j < k
             /\ first.status = "success" /\ second.status = "success"
             /\ first.source_url = second.source_url
             /\ first # second

\* The entries this run has appended.
ThisRun == SubSeq(manifest_entries, Len(hist.loaded.entries) + 1, Len(manifest_entries))

\* C12: no two entries appended during one run have the same source_url.
C12_UniqueInRun ==
    pc # "idle" =>
        \A j, k \in 1..Len(ThisRun) :
            ThisRun[j].source_url = ThisRun[k].source_url => j = k

\* C13: no step of a run changes an entry that is in the entry list: a handler
\* step leaves the list a prefix of the new list, the load takes the entries of
\* the file as they are, and the write persists them as they are.
IsPrefix(s, t) == Len(s) <= Len(t) /\ SubSeq(t, 1, Len(s)) = s
C13_EntriesImmutable ==
    [][/\ (pc # "idle" /\ pc' # "idle") => IsPrefix(manifest_entries, manifest_entries')
       /\ (pc = "idle" /\ pc' # "idle" /\ manifest_file.kind = "json") =>
              manifest_entries' = manifest_file.doc.entries
       /\ (pc = "writing" /\ pc' = "zip") =>
              manifest_file'.doc.entries = manifest_entries]_vars

\* C13, the case: a run has appended a result for a URL of which the loaded
\* list already held an entry.
C13_NewerResultAppended ==
    /\ pc # "idle"
    /\ \E k \in 1..Len(hist.loaded.entries) :
          \E j \in 1..Len(ThisRun) :
              ThisRun[j].source_url = hist.loaded.entries[k].source_url

\* C14: when handle_uscis_employment_data meets a URL that is in the index and
\* whose local file is gone, is_file_in_manifest answers false instead of
\* failing, the handler attempts the download, and on success a new success
\* entry of the URL is the last of the list and the value of the index.
C14_MissingFileRecovered ==
    (/\ hist.last.method = "uscis_employment_data"
     /\ hist.last.was_indexed
     /\ ~hist.last.was_on_disk) =>
        /\ Attempted
        /\ hist.last.captured = "no"
        /\ hist.last.outcome = "ok" =>
              /\ ThisRun # <<>>
              /\ LET entry == ThisRun[Len(ThisRun)]
                 IN /\ entry.source_url = hist.last.url
                    /\ entry.status = "success"
                    /\ entry.downloaded_at = run_date
                    /\ files_by_url[hist.last.url] = entry

\* C14, the case: the file of a URL of the loaded index was gone, and the
\* download that handle_uscis_employment_data made for it succeeded.
C14_Redownloaded ==
    /\ hist.last.method = "uscis_employment_data"
    /\ hist.last.url \in DOMAIN hist.loaded.files_by_url
    /\ hist.last.was_indexed
    /\ ~hist.last.was_on_disk
    /\ hist.last.outcome = "ok"
    /\ disk[hist.last.path] = Content(hist.last.url, TRUE)

\* ------------------------------------------- properties of the extractor
Called == detected # NotCalled
Lowered == lower(text)
Positions == 1..Len(text)

\* The values of the five patterns in a text: of every match of the pattern,
\* not of its first one only.  A fiscal year is matched with the first quarter
\* after it, a quarter with the first fiscal year after it.
MonthNameValues(t) ==
    {Date(int(t[MonthYearAt(t, p, month_names[i].name)].d), month_names[i].num, 1) :
        <<i, p>> \in {ip \in (1..Len(month_names)) \X (1..Len(t)) :
                        /\ MonthYearAt(t, ip[2], month_names[ip[1]].name) # 0
                        /\ int(t[MonthYearAt(t, ip[2], month_names[ip[1]].name)].d) >= 1}}
InRange(t, p) == int(t[p].d) \in 2000..2100 /\ int(t[p + 2].d) \in 1..12
YearMonthValues(t) ==
    {Date(int(t[p].d), int(t[p + 2].d), 1) :
        p \in {p \in 1..Len(t) : YearMonthAt(t, p) /\ InRange(t, p)}}
QuarterEnd(N, q) ==
    CASE q = 1 -> Date(N - 1, 12, 31)
      [] q = 2 -> Date(N, 3, 31)
      [] q = 3 -> Date(N, 6, 30)
      [] q = 4 -> Date(N, 9, 30)
FirstQuarterAfter(t, p) == Min({q \in (p + 1)..Len(t) : QuarterAt(t, q)})
FirstFiscalYearAfter(t, p) == Min({f \in (p + 1)..Len(t) : FiscalYearAt(t, f) # 0})
IsQuarterEnd(N, q) == q \in 1..4 /\ N >= (IF q = 1 THEN 2 ELSE 1)
FiscalValues(t) ==
    {QuarterEnd(int(SubSeq(t[FiscalYearAt(t, fq[1])].d, 1, 4)), t[fq[2] + 1].d[1]) :
        fq \in {fq \in (1..Len(t)) \X (1..Len(t)) :
                  /\ FiscalYearAt(t, fq[1]) # 0
                  /\ QuarterAt(t, fq[2])
                  /\ \/ /\ fq[2] > FiscalYearAt(t, fq[1])
                        /\ fq[2] = FirstQuarterAfter(t, FiscalYearAt(t, fq[1]))
                     \/ /\ fq[1] > fq[2] + 1
                        /\ fq[1] = FirstFiscalYearAfter(t, fq[2] + 1)
                  /\ IsQuarterEnd(int(SubSeq(t[FiscalYearAt(t, fq[1])].d, 1, 4)),
                                  t[fq[2] + 1].d[1])}}
CalendarQuarterValues(t) ==
    {Date(int(t[p].d), (t[CalendarQuarterAt(t, p)].d[1] - 1) * 3 + 1, 1) :
        p \in {p \in 1..Len(t) : /\ CalendarQuarterAt(t, p) # 0
                                 /\ t[CalendarQuarterAt(t, p)].d[1] \in 1..4
                                 /\ int(t[p].d) >= 1}}
BareYearValues(t) == {Date(int(t[p].d), 1, 1) : p \in {p \in 1..Len(t) : BareYearAt(t, p)}}

\* The values of the lowest-numbered pattern that is present; None when no
\* pattern is present.
Winners(t) ==
    IF MonthNameValues(t) # {} THEN MonthNameValues(t)
    ELSE IF YearMonthValues(t) # {} THEN YearMonthValues(t)
    ELSE IF FiscalValues(t) # {} THEN FiscalValues(t)
    ELSE IF CalendarQuarterValues(t) # {} THEN CalendarQuarterValues(t)
    ELSE IF BareYearValues(t) # {} THEN BareYearValues(t)
    ELSE {Absent}

\* C15: the result of a call that returns is a value of the lowest-numbered of
\* the five patterns that is present in the text, never that of a later one,
\* and it is None exactly when no pattern is present.
C15_PrecedenceWinner == (Called /\ detected # ValueError) => detected \in Winners(Lowered)

\* C16: for a text that is a fiscal year N (N >= 2, so that every quarter end
\* is a date of the calendar) and a quarter q in 1..4, in either order, the
\* result is the end of that fiscal quarter: Dec 31 of N-1, Mar 31, Jun 30 or
\* Sep 30 of N.
FiscalYearOf(t) == int(t[CHOOSE p \in 1..Len(t) : IsDigits(t[p], 4)].d)
QuarterOf(t) == t[CHOOSE p \in 1..Len(t) : IsDigits(t[p], 1)].d[1]
C16_FiscalQuarterEnd ==
    (/\ Called
     /\ Len(text) \in 4..6
     /\ text[1].k \in {"fy", "q"}
     /\ Lowered \in FiscalYearFirstTexts \cup QuarterFirstTexts
     /\ FiscalYearOf(text) >= 2
     /\ QuarterOf(text) \in 1..4) =>
        detected = QuarterEnd(FiscalYearOf(text), QuarterOf(text))

\* C16, the case: "Q1 FY2026" gave December 31, 2025.
C16_FirstQuarterIsPreviousYear ==
    /\ text = InCase(QuarterFirstText("fy", <<>>, <<2, 0, 2, 6>>, <<Sep(" ")>>, 1), "upper")
    /\ detected = Date(2025, 12, 31)

\* C17: a call never raises: the result is None or a date with a month in
\* 1..12 and a day of that month.
C17_NeverRaises ==
    Called =>
        \/ detected = Absent
        \/ /\ detected.kind = "date"
           /\ detected.month \in 1..12
           /\ detected.day \in 1..DaysInMonth(detected.year, detected.month)

\* A date substring that the extractor recognises on its own, and the filler
\* characters (letters, underscore, dot, slash, hyphen, space) around it.
Recognised(d) == d \in DateParts /\ extract_date_from_text(d).kind = "date"
IsFiller(tok) == tok.k \in {"word", "sep"}

\* C18: the result for a recognised date substring with filler characters
\* before and after it is the result for the substring alone, and the result
\* does not depend on the case of the letters.
C18_EmbeddedAndAnyCase ==
    Called =>
        /\ \A i, j \in Positions :
              (/\ i <= j
               /\ Recognised(SubSeq(Lowered, i, j))
               /\ \A p \in Positions \ (i..j) : IsFiller(text[p])) =>
                  detected = extract_date_from_text(SubSeq(Lowered, i, j))
        /\ \A c \in Cases : detected = extract_date_from_text(InCase(text, c))

\* A text that is a month name, at most one common separator, and a year of
\* the calendar.
IsMonthYearText(t) ==
    /\ Len(t) \in 2..3
    /\ t[1].k = "month"
    /\ IsDigits(t[Len(t)], 4) /\ int(t[Len(t)].d) >= 1
    /\ Len(t) = 3 => IsSep(t[2], CommonSeparators)
MonthNumber(name) == month_names[CHOOSE i \in 1..Len(month_names) : month_names[i].name = name].num

\* C19: for a month name followed by a 4-digit year, with no separator or one
\* of space, hyphen, underscore, dot, slash, comma between them, the result is
\* the first day of that month of that year.
C19_MonthNameAnySeparator ==
    (Called /\ IsMonthYearText(Lowered)) =>
        detected = Date(int(Lowered[Len(text)].d), MonthNumber(Lowered[1].s), 1)

\* C20: a text that is one year-month token gives the first day of its month
\* when the year is in 2000..2100 and the month in 1..12, and no date of that
\* year and month otherwise; and a text without a month name that holds a
\* year-month token inside the ranges gives the first day of the month of the
\* first such token.
C20_YearMonth ==
    Called =>
        /\ (Len(text) = 3 /\ YearMonthAt(Lowered, 1)) =>
              IF InRange(Lowered, 1)
              THEN detected = Date(int(text[1].d), int(text[3].d), 1)
              ELSE ~(/\ detected.kind = "date"
                     /\ detected.year = int(text[1].d)
                     /\ detected.month = int(text[3].d))
        /\ LET tokens == {p \in Positions : YearMonthAt(Lowered, p) /\ InRange(Lowered, p)}
           IN (tokens # {} /\ \A p \in Positions : text[p].k # "month") =>
                 detected = Date(int(text[Min(tokens)].d), int(text[Min(tokens) + 2].d), 1)

\* C25: an undated candidate is never given the current date.  The candidates
\* of handle_scrape_if_available are links in which no date is recognised (the
\* handler looks for none): no success entry this run appended for one of them
\* has the run date as its detected_date.
C25_UndatedNeverRunDate ==
    \A k \in 1..Len(ThisRun) :
        (/\ ThisRun[k].method = "scrape_if_available"
         /\ ThisRun[k].status = "success"
         /\ \E link \in UndatedLinks : link.url = ThisRun[k].source_url) =>
            ThisRun[k].detected_date # run_date

\* The statuses a handler writes.
Statuses == {"success", "download_failed", "no_files_found", "no_new_release", "error",
             "skipped"}

\* C26: of every entry the handlers have appended, the status is one of the six
\* values, the status is success if and only if the local path and the hash
\* are both present, and with any other status both are absent.
C26_SuccessIffPathAndHash ==
    \A k \in 1..Len(ThisRun) :
        LET entry == ThisRun[k]
        IN /\ entry.status \in Statuses
           /\ entry.status = "success" <=> (entry.local_path # NoPath /\ entry.hash # NoHash)
           /\ entry.status # "success" => (entry.local_path = NoPath /\ entry.hash = NoHash)

\* C26, the case: the run has appended a successful entry, whose hash is the
\* digest of the file at its path, and an entry of a failed download.
C26_SuccessAndFailure ==
    /\ \E k \in 1..Len(ThisRun) :
          /\ ThisRun[k].status = "success"
          /\ ThisRun[k].hash = hash_file(disk[ThisRun[k].local_path])
    /\ \E k \in 1..Len(ThisRun) : ThisRun[k].status = "download_failed"

\* C27: whenever is_file_in_manifest has returned true for (url, path), the
\* file at path is the complete content of a download of url and its digest is
\* the hash of the index entry of url.
C27_CapturedIsComplete ==
    hist.last.captured = "yes" =>
        /\ disk[hist.last.path] = Content(hist.last.url, TRUE)
        /\ hash_file(disk[hist.last.path]) = files_by_url[hist.last.url].hash

\* The positions at which a month name followed by a year is matched.
MonthYears(t) ==
    {p \in 1..Len(t) : \E i \in 1..Len(month_names) : MonthYearAt(t, p, month_names[i].name) # 0}

\* C29: of a text that holds more than one month name + year, the result is
\* the first day of the month of the leftmost one.
C29_LeftmostMonthYear ==
    (Called /\ \E p, q \in MonthYears(Lowered) : p # q) =>
        LET p == Min(MonthYears(Lowered))
            y == MonthYearAt(Lowered, p, Lowered[p].s)
        IN detected = Date(int(Lowered[y].d), MonthNumber(Lowered[p].s), 1)

\* C21: is_within_months(dt, reference, months) is true exactly when dt is at
\* or after reference minus months times 30 days: the instant of the boundary
\* is inside, and so is every instant after the reference.
C21_WindowArithmetic ==
    \A k \in 1..Len(hist.calls) :
        LET call == hist.calls[k]
        IN /\ call.result <=> call.dt >= call.reference - call.months * 30 * TicksPerDay
           /\ call.dt > call.reference => call.result

\* C21, the case: the function was called with the instant of the boundary
\* and with an instant after the reference.
C21_BoundaryAndLater ==
    /\ \E k \in 1..Len(hist.calls) :
          hist.calls[k].dt = hist.calls[k].reference - hist.calls[k].months * 30 * TicksPerDay
    /\ \E k \in 1..Len(hist.calls) : hist.calls[k].dt > hist.calls[k].reference

\* C22: is_within_months is monotone in the date: of two calls with the same
\* reference and months, if the earlier date is inside, so is the later one.
C22_Monotone ==
    \A j, k \in 1..Len(hist.calls) :
        LET first == hist.calls[j]
            second == hist.calls[k]
        IN (/\ first.reference = second.reference
            /\ first.months = second.months
            /\ first.dt >= second.dt
            /\ second.result) => first.result

\* C22, the case: two calls with different dates, the earlier one inside the
\* window and the later one after the reference.
C22_LaterThanOneInside ==
    \E j, k \in 1..Len(hist.calls) :
        /\ hist.calls[j].dt > hist.calls[k].dt
        /\ hist.calls[j].dt > hist.calls[j].reference
        /\ hist.calls[k].result

\* The date of a candidate: the one of its text and, when the text has none,
\* the one of its URL.
DateOf(link) == IF DateIn[link.text] # Absent THEN DateIn[link.text] ELSE DateIn[link.url]
Dated(link) == DateOf(link).kind = "date"
InWindow(link) == Midnight(DateOf(link)) >= run_date - within_months * 30 * TicksPerDay
\* The k-th smallest element of a set of numbers.
Nth(S, k) == CHOOSE x \in S : Cardinality({y \in S : y < x}) = k - 1

\* C23: the list pick_recent_links returns holds exactly the candidates that
\* have a date and are inside the window, in the order of the page, each with
\* its date; a candidate without a date is not in it.
C23_DatedInWindowInOrder ==
    pc = "selected" =>
        LET chosen == {k \in 1..Len(links) : Dated(links[k]) /\ InWindow(links[k])}
        IN /\ Len(recent_links) = Cardinality(chosen)
           /\ \A j \in 1..Len(recent_links) :
                 LET link == links[Nth(chosen, j)]
                 IN recent_links[j] = [url |-> link.url, text |-> link.text,
                                       detected_date |-> Midnight(DateOf(link))]

\* C23, the case: of two candidates the list holds the one whose date is in
\* its URL alone, and the other has no date or one outside the window.
C23_UrlDatedKept ==
    /\ pc = "selected"
    /\ Len(links) = 2
    /\ Len(recent_links) = 1
    /\ extract_date_from_text(recent_links[1].text) = Absent
    /\ recent_links[1].detected_date = Midnight(extract_date_from_text(recent_links[1].url))
    /\ \E k \in 1..2 : ~Dated(links[k]) \/ ~InWindow(links[k])

\* The links of a list that have a given date, in the order of the list.
OfDate(list, date) == SelectSeq(list, LAMBDA link : link.detected_date = date)
LeftOut(date) == Len(OfDate(work, date)) < Len(OfDate(recent_links, date))

C28_RecordedWindowIsFilter ==
    (pc = "selected" /\ within_months = 12) =>
        \A k \in 1..Len(links) :
            Dated(links[k]) =>
                ((\E j \in 1..Len(recent_links) :
                      /\ recent_links[j].url = links[k].url
                      /\ recent_links[j].text = links[k].text)
                 <=> Midnight(DateOf(links[k]))
                        >= final_manifest(run_date, manifest_entries).window_12m_start)

\* The requests of a call so far, in order.
Requests == SelectSeq(http.log, LAMBDA event : event.e = "request")
\* The position in the log of the k-th request.
RequestAt(k) ==
    CHOOSE i \in 1..Len(http.log) :
        /\ http.log[i].e = "request"
        /\ Cardinality({j \in 1..i : http.log[j].e = "request"}) = k

\* C30: http_get makes at most MAX_RETRIES (3) requests; a request that
\* succeeds is the last thing the call does and its response is returned;
\* after a failed request that is not the third the call waits 1 s (the
\* first) or 2 s (the second) and then makes the next request; after the third
\* failed request it does not wait, and it raises the error; it raises in no
\* other case.
C30_RetryPolicy ==
    /\ Len(Requests) <= 3
    /\ Len(Requests) <= MAX_RETRIES
    /\ \A k \in 1..Len(Requests) :
          LET i == RequestAt(k)
          IN IF Requests[k].outcome = "ok"
             THEN /\ i = Len(http.log)
                  /\ http.pc = "returned"
                  /\ http.result = "response"
             ELSE IF k < 3
             THEN /\ i = Len(http.log) => http.pc = "except"
                  /\ i < Len(http.log) =>
                        http.log[i + 1] = Event("backoff", None, IF k = 1 THEN 1000 ELSE 2000)
                  /\ i + 1 < Len(http.log) => http.log[i + 2].e = "request"
                  /\ i + 1 = Len(http.log) => http.pc = "request"
             ELSE /\ i = Len(http.log)
                  /\ http.pc \in {"except", "raised"}
    /\ http.pc = "raised" <=>
          /\ Len(Requests) = 3
          /\ \A k \in 1..3 : Requests[k].outcome # "ok"
          /\ http.result = Requests[3].outcome
          /\ ~ENABLED HttpNext
    /\ http.pc = "returned" => ~ENABLED HttpNext

\* C30, the case: all three requests failed, the call waited 1 s and 2 s
\* between them and raised the error of the third.
C30_RaisedAfterThree ==
    /\ http.pc = "raised"
    /\ Len(Requests) = 3
    /\ http.result = Requests[3].outcome
    /\ Len(http.log) = 6
    /\ http.log[3].ms = 1000
    /\ http.log[5].ms = 2000

====
